---- MODULE Spec2Model ----
(***************************************************************************)
(* Model of src/src/Resnet_multiscale_transfer.py (class ResNet):          *)
(*   train_net / check_data_info        - the training loop                *)
(*   calculate_loss                     - the composite multi-horizon loss *)
(*   uni_scale_forecast                 - the single-scale forecast        *)
(*   vectorized_multi_scale_forecast    - the multiscale forecast          *)
(* Each operation is one call of the method on inputs drawn from small     *)
(* sets; each has its own initial predicate, next-state relation and       *)
(* specification, and Spec is their union.                                 *)
(*                                                                         *)
(* Loss values in train_net are floats that the loop only ever compares    *)
(* (<, <=) and copies.  They are represented on a decimal log scale: the   *)
(* integer v stands for the loss 10^v, so 1e+5 is 5 and 1e-8 is -8, and    *)
(* every comparison of the code keeps its meaning.                         *)
(***************************************************************************)
EXTENDS Integers, Sequences, FiniteSets, TLC

VARIABLES
    pc,              \* position of the running call
    model,           \* self: [n_dim, dt, step_size]              (lines 52-56)
    dataset,         \* the dataset argument: [n_dim, dt, step_size]
    max_epoch,       \* train_net argument
    model_path,      \* train_net argument: "None" or a path
    epoch,           \* train_net local (line 130)
    best_loss,       \* train_net local (line 131)
    val_loss,        \* train_net local (line 142): << >> while unbound, <<v>> once bound
    state,           \* "Running", "Converged" (break, line 146) or "Exhausted" (line 133 false)
    optimizer_steps, \* number of optimizer.step() calls made (line 150)
    loop_saves,      \* number of torch.save calls made at line 164
    exit_saves,      \* number of torch.save calls made at line 169
    logged,          \* history: validation losses seen at the logging iterations (line 157)
    val_params,      \* history: the optimizer steps behind the parameters val_loss was
                     \* computed on (line 142), -1 while val_loss is unbound
    checkpoint,      \* history: the last torch.save, << >> while none:
                     \* [params: optimizer steps behind the saved parameters,
                     \*  validated: val_params of the loss that triggered it, val_loss: that loss]
    params,          \* self's two blocks: [large |-> [w, b], small |-> [w, b]]  (lines 63-65)
    x,               \* calculate_loss argument: the batch of states
    ys,              \* calculate_loss argument: ys[b][c + 1] is the target column c of sample b
    terms,           \* history: the compositions whose error calculate_loss added to loss
    loss,            \* calculate_loss result <<numerator, denominator>>, << >> before the call
    n_steps,         \* forecast argument
    x_init,          \* forecast argument
    cur_step,        \* uni_scale_forecast local (line 96)
    steps,           \* uni_scale_forecast local (line 90)
    step_sizes,      \* vectorized_multi_scale_forecast argument
    models0,         \* models[0].step_size of the models argument (line 417)
    indices,         \* vectorized_multi_scale_forecast local (line 416)
    preds,           \* vectorized_multi_scale_forecast local: the forecast buffer (line 418)
    written,         \* history: the buffer positions assigned so far
    total_step_sizes, \* vectorized_multi_scale_forecast local (line 423)
    i,               \* vectorized_multi_scale_forecast: the passes of line 426 done so far
    last_idx         \* vectorized_multi_scale_forecast local (line 442), -1 before it is set

trainVars == <<dataset, max_epoch, model_path, epoch, best_loss, val_loss,
               state, optimizer_steps, loop_saves, exit_saves, logged,
               val_params, checkpoint>>

lossVars == <<x, ys, terms, loss>>

uniVars == <<cur_step, steps>>

multiVars == <<step_sizes, models0, indices, preds, written, total_step_sizes, i, last_idx>>

vars == <<pc, model, trainVars, params, lossVars, n_steps, x_init, uniVars, multiVars>>

----------------------------------------------------------------------------
(* Program constants *)

\* best_loss = 1e+5
BestLossInit == 5

\* the accuracy 1e-8 of the early stop
Threshold == -8

\* epoch % 1000
LogInterval == 1000

(* Bounds of the model *)

\* the largest max_epoch tried: past two logging iterations
MaxEpochCap == 2001

MaxEpochs == {0, 1, 5, LogInterval - 1, LogInterval, LogInterval + 1, MaxEpochCap}

\* validation losses an iteration may compute (decimal exponents)
LossValues == {Threshold - 1, Threshold, 0, BestLossInit, BestLossInit + 1}

ModelConfigs == {[n_dim |-> 3, dt |-> 1, step_size |-> 4]}

DatasetConfigs == [n_dim : {2, 3}, dt : {1, 2}, step_size : {4, 8}]

ModelPaths == {"None", "model.pt"}

Min(S) == CHOOSE m \in S : \A n \in S : m <= n

\* the variables of the calls that are not running
NoTrain ==
    /\ dataset = [n_dim |-> 1, dt |-> 1, step_size |-> 1]
    /\ max_epoch = 0
    /\ model_path = "None"
    /\ epoch = 0
    /\ best_loss = BestLossInit
    /\ val_loss = << >>
    /\ state = "Running"
    /\ optimizer_steps = 0
    /\ loop_saves = 0
    /\ exit_saves = 0
    /\ logged = {}
    /\ val_params = -1
    /\ checkpoint = << >>

NoLoss == x = << >> /\ ys = << >> /\ terms = << >> /\ loss = << >>

NoUni == cur_step = 0 /\ steps = << >>

NoMulti ==
    /\ step_sizes = << >>
    /\ models0 = 0
    /\ indices = << >>
    /\ preds = << >>
    /\ written = {}
    /\ total_step_sizes = 0
    /\ i = 0
    /\ last_idx = -1

NoForecast == n_steps = 0 /\ x_init = 0 /\ NoUni /\ NoMulti

----------------------------------------------------------------------------
(* train_net *)

\* variant of check_data_info without the step_size assert
ConsistentDataNoStepSize(m, d) == m.n_dim = d.n_dim /\ m.dt = d.dt

\* check_data_info: the three asserts
ConsistentData(m, d) ==
    /\ m.n_dim = d.n_dim
    /\ m.dt = d.dt
    /\ m.step_size = d.step_size

\* variant: while epoch <= max_epoch
LoopContinuesInclusive(e, mx) == e <= mx

\* while epoch < max_epoch
LoopContinues(e, mx) == e < mx

\* variant: if best_loss < 1e-8
ReachedAccuracyStrict(best) == best < Threshold

\* if best_loss <= 1e-8
ReachedAccuracy(best) == best <= Threshold

\* variant: if epoch % 5 == 0
IsLogEpochEvery5(e) == e % 5 = 0

\* if epoch % 1000 == 0
IsLogEpoch(e) == e % LogInterval = 0

\* variant: best_loss taken from every logging iteration
ImprovedAlways(v, best) == TRUE

\* if val_loss.item() < best_loss
Improved(v, best) == v < best

\* variant: if val_loss.item() <= best_loss and model_path is not None
SaveAtExitInclusive(v, best, path) == v <= best /\ path # "None"

\* if val_loss.item() < best_loss and model_path is not None
SaveAtExit(v, best, path) == v < best /\ path # "None"

\* torch.save(self, model_path): the parameters as they are at the save, with the
\* parameters and the value of the validation loss that triggered it
SavedModel(saved, validated, v) == [params |-> saved, validated |-> validated, val_loss |-> v]

InitTrain ==
    /\ pc = "start"
    /\ model \in ModelConfigs
    /\ dataset \in DatasetConfigs
    /\ max_epoch \in MaxEpochs
    /\ model_path \in ModelPaths
    /\ epoch = 0
    /\ best_loss = BestLossInit
    /\ val_loss = << >>
    /\ state = "Running"
    /\ optimizer_steps = 0
    /\ loop_saves = 0
    /\ exit_saves = 0
    /\ logged = {}
    /\ val_params = -1
    /\ checkpoint = << >>
    /\ params = [large |-> [w |-> 0, b |-> 0], small |-> [w |-> 0, b |-> 0]]
    /\ NoLoss
    /\ NoForecast

\* line 126: self.check_data_info(dataset); lines 129-132 set up the loop
CheckDataInfo ==
    /\ pc = "start"
    /\ pc' = IF ConsistentData(model, dataset) THEN "loop" ELSE "AssertionError"
    /\ epoch' = 0
    /\ best_loss' = BestLossInit
    /\ UNCHANGED <<dataset, max_epoch, model_path, val_loss, state,
                   optimizer_steps, loop_saves, exit_saves, logged,
                   val_params, checkpoint>>
    /\ UNCHANGED <<model, params, lossVars, n_steps, x_init, uniVars, multiVars>>

\* one pass through the loop body that ends at the break, lines 134-146
IterateBreak ==
    /\ pc = "loop"
    /\ LoopContinues(epoch, max_epoch)
    /\ ReachedAccuracy(best_loss)
    /\ \E v \in LossValues : val_loss' = <<v>>
    /\ val_params' = optimizer_steps
    /\ epoch' = epoch + 1
    /\ state' = "Converged"
    /\ pc' = "exit"
    /\ UNCHANGED <<dataset, max_epoch, model_path, best_loss,
                   optimizer_steps, loop_saves, exit_saves, logged, checkpoint>>
    /\ UNCHANGED <<model, params, lossVars, n_steps, x_init, uniVars, multiVars>>

\* one whole pass through the loop body, lines 134-164
IterateStep ==
    /\ pc = "loop"
    /\ LoopContinues(epoch, max_epoch)
    /\ ~ReachedAccuracy(best_loss)
    /\ \E v \in LossValues :
        /\ val_loss' = <<v>>
        /\ val_params' = optimizer_steps
        /\ epoch' = epoch + 1
        /\ optimizer_steps' = optimizer_steps + 1
        /\ IF IsLogEpoch(epoch + 1)
           THEN /\ logged' = logged \cup {v}
                /\ IF Improved(v, best_loss)
                   THEN /\ best_loss' = v
                        /\ loop_saves' = IF model_path # "None"
                                         THEN loop_saves + 1 ELSE loop_saves
                        /\ checkpoint' = IF model_path # "None"
                                         THEN SavedModel(optimizer_steps + 1, optimizer_steps, v)
                                         ELSE checkpoint
                   ELSE UNCHANGED <<best_loss, loop_saves, checkpoint>>
           ELSE UNCHANGED <<logged, best_loss, loop_saves, checkpoint>>
    /\ UNCHANGED <<pc, dataset, max_epoch, model_path, state, exit_saves>>
    /\ UNCHANGED <<model, params, lossVars, n_steps, x_init, uniVars, multiVars>>

\* line 133 evaluates to false: the loop ends without a break
LoopExhausted ==
    /\ pc = "loop"
    /\ ~LoopContinues(epoch, max_epoch)
    /\ state' = "Exhausted"
    /\ pc' = "exit"
    /\ UNCHANGED <<dataset, max_epoch, model_path, epoch, best_loss, val_loss,
                   optimizer_steps, loop_saves, exit_saves, logged,
                   val_params, checkpoint>>
    /\ UNCHANGED <<model, params, lossVars, n_steps, x_init, uniVars, multiVars>>

\* lines 166-169: the save at the end; val_loss is unbound when the body never ran
ExitSave ==
    /\ pc = "exit"
    /\ IF val_loss = << >>
       THEN /\ pc' = "UnboundLocalError"
            /\ UNCHANGED <<exit_saves, checkpoint>>
       ELSE /\ pc' = "done"
            /\ exit_saves' = IF SaveAtExit(val_loss[1], best_loss, model_path)
                             THEN exit_saves + 1 ELSE exit_saves
            /\ checkpoint' = IF SaveAtExit(val_loss[1], best_loss, model_path)
                             THEN SavedModel(optimizer_steps, val_params, val_loss[1])
                             ELSE checkpoint
    /\ UNCHANGED <<dataset, max_epoch, model_path, epoch, best_loss, val_loss,
                   state, optimizer_steps, loop_saves, logged, val_params>>
    /\ UNCHANGED <<model, params, lossVars, n_steps, x_init, uniVars, multiVars>>

NextTrain == CheckDataInfo \/ IterateBreak \/ IterateStep \/ LoopExhausted \/ ExitSave

SpecTrain == InitTrain /\ [][NextTrain]_vars

\* the call runs on one thread that nothing suspends: an enabled step is taken
FairSpecTrain == SpecTrain /\ WF_vars(NextTrain)

----------------------------------------------------------------------------
(* forward and calculate_loss, on states of dimension n_dim = 1 and blocks    *)
(* of architecture [1, 1]: one Linear layer, no activation after the last one *)

\* samples in a batch
BatchSize == 1

\* the large block's stride of the models tried: 2..MaxStepSize
MaxStepSize == 4

StateValues == {0, 1}

\* a block that adds nothing (x -> x) and one that maps every state to 1
BlockParams == {[w |-> 0, b |-> 0], [w |-> -1, b |-> 1]}

ParamSets == [large : BlockParams, small : BlockParams]

\* NNBlock.forward with n_layers = 1: the last Linear layer alone
NNBlock(theta, xv) == theta.w * xv + theta.b

\* ResNet.forward(x_init, step_size): x_init + self._modules[step_size](x_init)
Forward(p, xv, which) == xv + NNBlock(p[which], xv)

\* y_next = self.forward(self.forward(x, a), b) ...: the steps of seq in order
RECURSIVE Compose(_, _, _)
Compose(p, xv, seq) ==
    IF seq = << >> THEN xv
    ELSE Compose(p, Forward(p, xv, Head(seq)), Tail(seq))

\* torch.nn.MSELoss(reduction='none') on one element
SquaredError(a, b) == (a - b) * (a - b)

RECURSIVE SumSeq(_)
SumSeq(q) == IF q = << >> THEN 0 ELSE Head(q) + SumSeq(Tail(q))

\* the compositions calculate_loss computes, in the order of lines 187-285, each
\* with the column of ys it belongs to and whether its error is added to loss

\* "4 needs just small"
Column0 ==
    << [seq |-> <<"small">>, col |-> 0, added |-> TRUE] >>

\* "8 is 2 smalls or a large"
Column1 ==
    << [seq |-> <<"small", "small">>, col |-> 1, added |-> TRUE],
       [seq |-> <<"large">>, col |-> 1, added |-> TRUE] >>

\* "for 12, need big and small in either order": the second is computed, not added
Column2 ==
    << [seq |-> <<"small", "large">>, col |-> 2, added |-> TRUE],
       [seq |-> <<"large", "small">>, col |-> 2, added |-> FALSE] >>

\* variant of Column3: the "4 small" composition written with three steps
Column3ThreeSmall ==
    << [seq |-> <<"large", "large">>, col |-> 3, added |-> TRUE],
       [seq |-> <<"small", "small", "small">>, col |-> 3, added |-> TRUE],
       [seq |-> <<"small", "small", "large">>, col |-> 3, added |-> TRUE],
       [seq |-> <<"large", "small", "small">>, col |-> 3, added |-> TRUE] >>

\* "for 16"
Column3 ==
    << [seq |-> <<"large", "large">>, col |-> 3, added |-> TRUE],
       [seq |-> <<"small", "small", "small", "small">>, col |-> 3, added |-> TRUE],
       [seq |-> <<"small", "small", "large">>, col |-> 3, added |-> TRUE],
       [seq |-> <<"large", "small", "small">>, col |-> 3, added |-> TRUE] >>

\* "for 20 there is even more"
Column4 ==
    << [seq |-> <<"large", "large", "small">>, col |-> 4, added |-> TRUE],
       [seq |-> <<"small", "large", "large">>, col |-> 4, added |-> TRUE],
       [seq |-> <<"large", "small", "large">>, col |-> 4, added |-> TRUE],
       [seq |-> <<"small", "small", "small", "small", "small">>, col |-> 4, added |-> TRUE],
       [seq |-> <<"large", "small", "small", "small">>, col |-> 4, added |-> TRUE],
       [seq |-> <<"small", "large", "small", "small">>, col |-> 4, added |-> TRUE],
       [seq |-> <<"small", "small", "large", "small">>, col |-> 4, added |-> TRUE],
       [seq |-> <<"small", "small", "small", "large">>, col |-> 4, added |-> TRUE] >>

Compositions == Column0 \o Column1 \o Column2 \o Column3 \o Column4

IsAdded(t) == t.added

\* the compositions whose criterion(...) is added to loss
AddedTerms == SelectSeq(Compositions, IsAdded)

\* criterion(y_next, ys[:, col, :]) of composition t, for sample b
TermError(p, xs, yss, t, b) == SquaredError(Compose(p, xs[b], t.seq), yss[b][t.col + 1])

\* the tensor loss after line 285: per sample, the sum of the added terms
LossTensor(p, xs, yss) ==
    [b \in 1..Len(xs) |->
        SumSeq([k \in 1..Len(AddedTerms) |-> TermError(p, xs, yss, AddedTerms[k], b)])]

\* tensor.mean() as the exact fraction <<sum of the elements, number of elements>>
Mean(tensor) == <<SumSeq(tensor), Len(tensor)>>

\* line 287: return loss.mean()
CalculateLossValue(p, xs, yss) == Mean(LossTensor(p, xs, yss))

InitLoss ==
    /\ pc = "start"
    /\ model \in [n_dim : {1}, dt : {1}, step_size : 2..MaxStepSize]
    /\ params \in ParamSets
    /\ x \in [1..BatchSize -> StateValues]
    /\ ys \in [1..BatchSize -> [1..5 -> StateValues]]
    /\ terms = << >>
    /\ loss = << >>
    /\ NoTrain
    /\ NoForecast

\* calculate_loss(x, ys), lines 177-287
CalculateLoss ==
    /\ pc = "start"
    /\ terms' = [k \in 1..Len(AddedTerms) |->
                    [seq |-> AddedTerms[k].seq, col |-> AddedTerms[k].col]]
    /\ loss' = CalculateLossValue(params, x, ys)
    /\ pc' = "done"
    /\ UNCHANGED <<model, params, x, ys, trainVars, n_steps, x_init, uniVars, multiVars>>

NextLoss == CalculateLoss

SpecLoss == InitLoss /\ [][NextLoss]_vars

----------------------------------------------------------------------------
(* uni_scale_forecast, lines 84-113 *)

\* the longest forecast asked for
MaxNSteps == 5

\* positional parameters of forward besides self: (x_init, step_size)
ForwardParameters == 2

\* arguments of the call self.forward(x_prev)
UniForwardArguments == 1

\* Python binds a call only when every required parameter gets an argument
CallBinds(given, required) == given = required

InitUni ==
    /\ pc = "start"
    /\ model \in [n_dim : {1}, dt : {1}, step_size : 2..MaxStepSize]
    /\ params \in ParamSets
    /\ n_steps \in 0..MaxNSteps
    /\ x_init \in StateValues
    /\ NoUni
    /\ NoMulti
    /\ NoTrain
    /\ NoLoss

\* lines 90-96
UniStart ==
    /\ pc = "start"
    /\ steps' = << >>
    /\ cur_step' = model.step_size - 1
    /\ pc' = "uni_loop"
    /\ UNCHANGED <<model, params, n_steps, x_init, trainVars, lossVars, multiVars>>

\* one pass through the while loop, lines 97-102.  The call of line 98 gives
\* forward one argument, so it raises TypeError; lines 104-113 are never reached.
UniLoopBody ==
    /\ pc = "uni_loop"
    /\ cur_step < n_steps + model.step_size
    /\ IF CallBinds(UniForwardArguments, ForwardParameters)
       THEN /\ steps' = Append(steps, cur_step)
            /\ cur_step' = cur_step + model.step_size
            /\ pc' = "uni_loop"
       ELSE /\ pc' = "TypeError"
            /\ UNCHANGED <<steps, cur_step>>
    /\ UNCHANGED <<model, params, n_steps, x_init, trainVars, lossVars, multiVars>>

NextUni == UniStart \/ UniLoopBody

SpecUni == InitUni /\ [][NextUni]_vars

----------------------------------------------------------------------------
(* vectorized_multi_scale_forecast, lines 398-458, with n_test = 1 *)

\* the largest stride tried in step_sizes and for models[0].step_size
MaxStride == 3

\* step_sizes: the default [8, 4], and every list of one or two strides
StepSizeArgs ==
    {<<8, 4>>} \cup {<<a>> : a \in 1..MaxStride}
               \cup {<<a, b>> : a \in 1..MaxStride, b \in 1..MaxStride}

\* type_models = ['large', 'small']
TypeModels == <<"large", "small">>

\* kind='lin/ear'
InterpKind == "lin/ear"

\* the kinds scipy.interpolate.interp1d accepts; any other raises NotImplementedError
InterpKinds == {"linear", "nearest", "nearest-up", "zero", "slinear", "quadratic",
                "cubic", "previous", "next"}

\* t applications of self.forward(., which): y_prev = y_next of line 437
RECURSIVE StepN(_, _, _, _)
StepN(p, xv, which, t) ==
    IF t = 0 THEN xv ELSE StepN(p, Forward(p, xv, which), which, t - 1)

\* int(total_step_sizes / step_size), both >= 0
NForward(total, step_size) == total \div step_size

\* [val for tup in zip(*indices_lists) for val in tup], where
\* indices_lists[t] = [x + t * step_size for x in indices], t = 0..n_forward
Interleave(idx, n_forward, step_size) ==
    [k \in 1..(Len(idx) * (n_forward + 1)) |->
        idx[((k - 1) \div (n_forward + 1)) + 1] + ((k - 1) % (n_forward + 1)) * step_size]

\* the positions line 436 assigns in the passes t = 0..n_forward-1 of line 432
ShiftedIndices(idx, n_forward, step_size) ==
    {idx[j] + t * step_size : j \in 1..Len(idx), t \in 1..n_forward}

InitMulti ==
    /\ pc = "start"
    /\ model \in [n_dim : {1}, dt : {1}, step_size : {2}]
    /\ params \in ParamSets
    /\ n_steps \in 1..MaxNSteps
    /\ x_init \in StateValues
    /\ step_sizes \in StepSizeArgs
    /\ models0 \in 1..MaxStride
    /\ indices = << >>
    /\ preds = << >>
    /\ written = {}
    /\ total_step_sizes = 0
    /\ i = 0
    /\ last_idx = -1
    /\ NoUni
    /\ NoTrain
    /\ NoLoss

\* lines 414-423
MultiStart ==
    /\ pc = "start"
    /\ preds' = [k \in 0..(n_steps + models0) |-> IF k = 0 THEN x_init ELSE 0]
    /\ written' = {0}
    /\ indices' = <<0>>
    /\ total_step_sizes' = n_steps
    /\ i' = 0
    /\ pc' = "passes"
    /\ UNCHANGED <<model, params, n_steps, x_init, step_sizes, models0, last_idx,
                   trainVars, lossVars, uniVars>>

\* one pass of "for i in [0,1]", lines 427-439.  step_sizes[i] raises IndexError
\* when the list is shorter; the assignment of line 436 raises IndexError at a
\* position past the end of preds.  No two (index, t) pairs of one pass give the
\* same position here, so the assigned values do not depend on an order.
ModelPass ==
    /\ pc = "passes"
    /\ i < 2
    /\ IF i + 1 > Len(step_sizes)
       THEN /\ pc' = "IndexError"
            /\ UNCHANGED <<indices, preds, written, total_step_sizes, i>>
       ELSE LET step_size == step_sizes[i + 1]
                type_model == TypeModels[i + 1]
                n_forward == NForward(total_step_sizes, step_size)
                shifted == ShiftedIndices(indices, n_forward, step_size)
            IN  IF \E k \in shifted : k > n_steps + models0
                THEN /\ pc' = "IndexError"
                     /\ UNCHANGED <<indices, preds, written, total_step_sizes, i>>
                ELSE /\ preds' =
                          [k \in DOMAIN preds |->
                              IF k \in shifted
                              THEN LET jt == CHOOSE jt \in (1..Len(indices)) \X (1..n_forward) :
                                                 k = indices[jt[1]] + jt[2] * step_size
                                   IN  StepN(params, preds[indices[jt[1]]], type_model, jt[2])
                              ELSE preds[k]]
                     /\ written' = written \cup shifted
                     /\ indices' = Interleave(indices, n_forward, step_size)
                     /\ total_step_sizes' = step_size - 1
                     /\ i' = i + 1
                     /\ pc' = "passes"
    /\ UNCHANGED <<model, params, n_steps, x_init, step_sizes, models0, last_idx,
                   trainVars, lossVars, uniVars>>

\* lines 442-443, after the two passes
PassesDone ==
    /\ pc = "passes"
    /\ i = 2
    /\ last_idx' = indices[Len(indices)]
    /\ pc' = "tail"
    /\ UNCHANGED <<model, params, n_steps, x_init, step_sizes, models0, indices, preds,
                   written, total_step_sizes, i, trainVars, lossVars, uniVars>>

\* one pass of the tail loop, lines 444-450: line 445 subscripts the integer
\* step_size, which raises TypeError
TailStep ==
    /\ pc = "tail"
    /\ last_idx < n_steps
    /\ pc' = "TypeError"
    /\ UNCHANGED <<model, params, n_steps, x_init, multiVars, trainVars, lossVars, uniVars>>

\* lines 452-458, once the tail loop's condition is false
Interpolate ==
    /\ pc = "tail"
    /\ ~(last_idx < n_steps)
    /\ pc' = IF InterpKind \in InterpKinds THEN "done" ELSE "NotImplementedError"
    /\ UNCHANGED <<model, params, n_steps, x_init, multiVars, trainVars, lossVars, uniVars>>

NextMulti == MultiStart \/ ModelPass \/ PassesDone \/ TailStep \/ Interpolate

SpecMulti == InitMulti /\ [][NextMulti]_vars

----------------------------------------------------------------------------
(* All calls *)

Init == InitTrain \/ InitLoss \/ InitUni \/ InitMulti

Next == NextTrain \/ NextLoss \/ NextUni \/ NextMulti

Spec == Init /\ [][Next]_vars

----------------------------------------------------------------------------
(* Claims about train_net *)

Mismatch ==
    \/ model.n_dim # dataset.n_dim
    \/ model.dt # dataset.dt
    \/ model.step_size # dataset.step_size

\* C1: when the model and the dataset disagree on n_dim, on dt or on step_size,
\* train_net never gets past check_data_info: it ends in the AssertionError
\* outcome with no optimizer step taken and no checkpoint written.
C1_MismatchFailsFast ==
    Mismatch =>
        /\ pc \in {"start", "AssertionError"}
        /\ epoch = 0
        /\ optimizer_steps = 0
        /\ loop_saves = 0
        /\ exit_saves = 0

\* the call failed on the last of the three asserts: only step_size differs
C1_Witness ==
    /\ pc = "AssertionError"
    /\ model.n_dim = dataset.n_dim
    /\ model.dt = dataset.dt
    /\ model.step_size # dataset.step_size

C2_Counts ==
    /\ optimizer_steps <= epoch
    /\ epoch <= max_epoch
    /\ (state = "Exhausted" => optimizer_steps = max_epoch /\ epoch = max_epoch)

\* C2: for max_epoch >= 1 and any sequence of validation losses train_net
\* terminates; when it doesn't stop as Converged it has made exactly max_epoch
\* optimizer steps, and always optimizer steps <= epoch <= max_epoch.
C2_TerminatesWithinMaxEpoch ==
    /\ []C2_Counts
    /\ (max_epoch >= 1 /\ ~Mismatch) => <>(pc = "done")

\* a run of max_epoch = 5 that ended Exhausted after its 5 optimizer steps
C2_Witness ==
    /\ pc = "done"
    /\ state = "Exhausted"
    /\ max_epoch = 5
    /\ optimizer_steps = 5

\* C3 as stated: with max_epoch < 1000 and a checkpoint path configured the model
\* is never persisted, neither in the loop nor at loop exit.
C3_NeverPersistedBelowInterval ==
    (max_epoch < LogInterval /\ model_path # "None") =>
        (loop_saves = 0 /\ exit_saves = 0)

\* C3 amended: with max_epoch < 1000 no logging or checkpoint event happens in
\* the loop and best_loss keeps its initial 1e+5; at loop exit the model is
\* persisted once exactly when a path is configured and the final validation
\* loss is below 1e+5.
C3_OnlyExitSaveBelowInterval ==
    max_epoch < LogInterval =>
        /\ loop_saves = 0
        /\ logged = {}
        /\ best_loss = BestLossInit
        /\ (pc # "done" => exit_saves = 0)
        /\ (pc = "done" =>
              exit_saves = IF model_path # "None" /\ val_loss[1] < BestLossInit
                           THEN 1 ELSE 0)

\* a 5-iteration run with a path configured that wrote its checkpoint at exit
C3_Witness ==
    /\ max_epoch = 5
    /\ pc = "done"
    /\ model_path # "None"
    /\ loop_saves = 0
    /\ exit_saves = 1

\* C4 as stated: an iteration whose validation loss is <= 1e-8 is the Converged
\* one (the loop does not go on after it), and a Converged exit has
\* optimizer steps = epoch - 1.
C4_ConvergedOnFirstSmallValLoss ==
    /\ ~(pc = "loop" /\ val_loss # << >> /\ val_loss[1] <= Threshold)
    /\ (state = "Converged" => val_loss[1] <= Threshold /\ optimizer_steps = epoch - 1)

C4_ConvergedState ==
    state = "Converged" =>
        /\ best_loss <= Threshold
        /\ best_loss = Min(logged)
        /\ epoch % LogInterval = 1
        /\ optimizer_steps = epoch - 1

C4_BreakStep ==
    /\ (pc = "loop" /\ epoch < max_epoch /\ best_loss <= Threshold) =>
          (state' = "Converged" /\ pc' = "exit" /\ optimizer_steps' = optimizer_steps)
    /\ (state # "Converged" /\ state' = "Converged") => best_loss <= Threshold

\* C4 amended: train_net turns Converged in the first iteration that starts with
\* best_loss <= 1e-8, which is the iteration after a logging iteration (a multiple
\* of 1000) whose validation loss was <= 1e-8 and below best_loss, whatever the
\* validation loss of the other iterations and of the Converged iteration itself;
\* that iteration makes no optimizer step, so optimizer steps = epoch - 1.
C4_ConvergedOnBestLoss == []C4_ConvergedState /\ [][C4_BreakStep]_vars

\* a run that turned Converged at iteration 1001 on a validation loss above 1e-8
C4_Witness ==
    /\ state = "Converged"
    /\ pc = "done"
    /\ epoch = LogInterval + 1
    /\ val_loss[1] > Threshold
    /\ optimizer_steps = LogInterval

C5_LoopStep ==
    /\ best_loss' <= best_loss
    /\ (best_loss' # best_loss \/ loop_saves' # loop_saves) =>
          /\ epoch' % LogInterval = 0
          /\ val_loss'[1] < best_loss
          /\ best_loss' = val_loss'[1]
          /\ best_loss' = Min(logged')
          /\ loop_saves' = IF model_path # "None" THEN loop_saves + 1 ELSE loop_saves

\* C5: in the loop the model is persisted and best_loss updated only at
\* iterations that are multiples of 1000 and only on a validation loss strictly
\* below best_loss; best_loss never increases, no other iteration changes it, and
\* after an update it is the least validation loss of the logging iterations so far.
C5_CheckpointOnlyOnImprovement == [][C5_LoopStep]_vars

\* two logging iterations, each an improvement that was persisted
C5_Witness ==
    /\ epoch = 2 * LogInterval
    /\ loop_saves = 2
    /\ Cardinality(logged) = 2
    /\ best_loss = Min(logged)

\* C6: at loop exit, Converged or Exhausted, the model is persisted once more
\* exactly when the final validation loss is below best_loss and a path is
\* configured; otherwise nothing is written at exit.
C6_ExitSaveIffBelowBest ==
    /\ (pc # "done" => exit_saves = 0)
    /\ (pc = "done" =>
          /\ state \in {"Converged", "Exhausted"}
          /\ exit_saves = IF val_loss[1] < best_loss /\ model_path # "None"
                          THEN 1 ELSE 0)

\* a Converged run whose last validation loss was below best_loss and was saved
C6_Witness ==
    /\ pc = "done"
    /\ state = "Converged"
    /\ val_loss[1] < best_loss
    /\ exit_saves = 1

----------------------------------------------------------------------------
(* Claims about calculate_loss *)

\* C7: calculate_loss returns the sum of one squared-error term for every
\* composition it computes, each against its column of ys: 1 for column 0, 2 for
\* column 1, both orders of small and large for column 2, 4 for column 3 and 8
\* for column 4.
C7_EveryComputedBranchSummed ==
    pc = "done" =>
        /\ Len(terms) = Len(Compositions)
        /\ loss = Mean([b \in 1..Len(x) |->
                     SumSeq([k \in 1..Len(Compositions) |->
                                TermError(params, x, ys, Compositions[k], b)])])

\* base units a composition covers when large covers s units and small covers 1
Covered(seq, s) == SumSeq([k \in 1..Len(seq) |-> IF seq[k] = "large" THEN s ELSE 1])

SameCoverage(s) ==
    \A k1, k2 \in 1..Len(terms) :
        terms[k1].col = terms[k2].col =>
            Covered(terms[k1].seq, s) = Covered(terms[k2].seq, s)

\* C8 as stated: for every step_size >= 2, with large covering step_size units
\* and small covering 1, the compositions supervised against one column of ys all
\* cover the same number of base units.
C8_SameCoverageForEveryStepSize ==
    pc = "done" => SameCoverage(model.step_size)

\* C8 amended: the compositions supervised against one column of ys all cover
\* the same number of base units exactly when step_size = 2, a large step being
\* worth two small ones; for every step_size >= 3 they do not.
C8_SameCoverageIffStepSizeTwo ==
    pc = "done" => (SameCoverage(model.step_size) <=> model.step_size = 2)

\* calculate_loss has run on a model of step_size 2 and added its 16 terms
C8_Witness ==
    /\ pc = "done"
    /\ model.step_size = 2
    /\ Len(terms) = 16
    /\ SameCoverage(2)

----------------------------------------------------------------------------
(* Claims about the forecasts *)

MultiEnded == pc \notin {"start", "passes", "tail"}

\* C9: vectorized_multi_scale_forecast called with the single stride 1 returns
\* without error, and every index 1..n_steps of its buffer holds the state
\* x_init after that many small steps.
C9_SingleStrideOneIsExact ==
    (step_sizes = <<1>> /\ MultiEnded) =>
        /\ pc = "done"
        /\ \A k \in 1..n_steps :
              /\ k \in written
              /\ preds[k] = StepN(params, x_init, "small", k)

UniEnded == pc \notin {"start", "uni_loop"}

\* C10: uni_scale_forecast returns, also when n_steps < step_size; the landed
\* indices it recorded start with the inserted 0, are strictly increasing and
\* end at n_steps - 1 or later.
C10_UniForecastCoversRange ==
    UniEnded =>
        /\ pc = "done"
        /\ steps # << >>
        /\ steps[1] = 0
        /\ \A k \in 1..(Len(steps) - 1) : steps[k] < steps[k + 1]
        /\ steps[Len(steps)] >= n_steps - 1

\* C11: for a decreasing pair of step sizes, once the two passes are done the
\* call goes on with the tail loop while the last index is short of n_steps and
\* leaves it with a last index >= n_steps; the list of computed indices then
\* starts at 0, is strictly increasing and reaches n_steps.
C11_TailReachesNSteps ==
    (/\ Len(step_sizes) = 2
     /\ step_sizes[1] > step_sizes[2]
     /\ last_idx # -1
     /\ MultiEnded) =>
        /\ last_idx >= n_steps
        /\ indices[1] = 0
        /\ \A k \in 1..(Len(indices) - 1) : indices[k] < indices[k + 1]
        /\ indices[Len(indices)] >= n_steps

\* the positions the pass about to run assigns at line 436
NextPassWrites ==
    IF pc = "passes" /\ i < 2 /\ i < Len(step_sizes)
    THEN ShiftedIndices(indices,
                        NForward(total_step_sizes, step_sizes[i + 1]),
                        step_sizes[i + 1])
    ELSE {}

\* C12: every time index the call assigns in the forecast buffer lies in
\* 0..n_steps + models[0].step_size, the extent the buffer was allocated with,
\* whatever n_steps and step_sizes are.
C12_WritesWithinBuffer ==
    /\ written \subseteq 0..(n_steps + models0)
    /\ NextPassWrites \subseteq 0..(n_steps + models0)

----------------------------------------------------------------------------
(* Claim about the parameters train_net persists *)

\* C13: whenever train_net persists the model, at a logging iteration or at
\* loop exit, the saved parameters are those the validation loss that triggered
\* the write was computed on; after a periodic checkpoint best_loss is thus the
\* validation loss of the saved model.
C13_SavedParamsAreValidated ==
    checkpoint # << >> =>
        /\ checkpoint.params = checkpoint.validated
        /\ (pc = "loop" => checkpoint.val_loss = best_loss)

====
